---- MODULE Spec2Model ----
(***************************************************************************)
(* Researcher discovery and reconciliation pipeline of Sauron              *)
(* (src/src/researcher_finder.py), and the paper loop of rank_institution  *)
(* that consumes its result (src/sauron.py, src/src/paper_gatherer.py).    *)
(*                                                                         *)
(* Python strings on which the code works character by character are       *)
(* sequences of one-character strings; the literal '/institutions/' is a   *)
(* single token of such a sequence.  Author ids and BAIs, which the code   *)
(* only compares and tests for truthiness, are atomic strings.             *)
(***************************************************************************)
EXTENDS Integers, Sequences, FiniteSets, TLC

\* ------------------------------------------------------------------------
\* Bounds of the model
\* ------------------------------------------------------------------------

\* lines in one discovery answer
MaxLines == 2
\* consecutive runs of find_researchers against the same registry
MaxRuns == 2

\* ------------------------------------------------------------------------
\* Python string primitives
\* ------------------------------------------------------------------------

None == "None"

\* the character U+2022, which sorts after the ASCII letters
Bullet == "bullet"

\* code-point order of the characters the model uses
Alphabet ==
  << "\t", "\n", " ", "*", ",", "-", ".",
     "0", "1", "2", "3", "4", "5", "6", "7", "8", "9", ":",
     "A", "B", "C", "D", "E", "F", "G", "H", "I", "J", "K", "L", "M",
     "N", "O", "P", "Q", "R", "S", "T", "U", "V", "W", "X", "Y", "Z",
     "a", "b", "c", "d", "e", "f", "g", "h", "i", "j", "k", "l", "m",
     "n", "o", "p", "q", "r", "s", "t", "u", "v", "w", "x", "y", "z", Bullet >>

Ord(c) == CHOOSE k \in 1..Len(Alphabet) : Alphabet[k] = c

Whitespace == {" ", "\t", "\n"}

\* str.lower() on one character: "A".."Z" are 26 places before "a".."z"
LowerChar(c) ==
  IF Ord(c) >= Ord("A") /\ Ord(c) <= Ord("Z")
  THEN Alphabet[Ord(c) + (Ord("a") - Ord("A"))]
  ELSE c

\* str.lower()
Lower(s) == [k \in 1..Len(s) |-> LowerChar(s[k])]

\* s[a:b] with 1-based inclusive bounds
Slice(s, a, b) == IF a > b THEN << >> ELSE SubSeq(s, a, b)

\* str.lstrip(chars)
LStripChars(s, chars) ==
  LET keep == {k \in 1..Len(s) : s[k] \notin chars}
  IN  IF keep = {} THEN << >>
      ELSE Slice(s, CHOOSE k \in keep : \A j \in keep : k <= j, Len(s))

\* str.rstrip(chars)
RStripChars(s, chars) ==
  LET keep == {k \in 1..Len(s) : s[k] \notin chars}
  IN  IF keep = {} THEN << >>
      ELSE Slice(s, 1, CHOOSE k \in keep : \A j \in keep : k >= j)

\* str.strip()
Strip(s) == RStripChars(LStripChars(s, Whitespace), Whitespace)

\* sub in s
Contains(s, sub) ==
  \E k \in 0..(Len(s) - Len(sub)) : Slice(s, k + 1, k + Len(sub)) = sub

\* s.startswith(pre)
StartsWith(s, pre) == Len(pre) <= Len(s) /\ Slice(s, 1, Len(pre)) = pre

\* s.endswith(suf)
EndsWith(s, suf) ==
  Len(suf) <= Len(s) /\ Slice(s, Len(s) - Len(suf) + 1, Len(s)) = suf

\* s.count(c) for a one-character c
CountChar(s, c) == Cardinality({k \in 1..Len(s) : s[k] = c})

\* s.split(sep) for a one-token separator
RECURSIVE SplitOn(_, _)
SplitOn(s, sep) ==
  LET at == {k \in 1..Len(s) : s[k] = sep}
  IN  IF at = {} THEN << s >>
      ELSE LET k == CHOOSE x \in at : \A y \in at : x <= y
           IN  << Slice(s, 1, k - 1) >> \o SplitOn(Slice(s, k + 1, Len(s)), sep)

\* s.split(): the maximal runs of non-whitespace characters
RECURSIVE SplitWords(_)
SplitWords(s) ==
  LET t == LStripChars(s, Whitespace)
      ws == {k \in 1..Len(t) : t[k] \in Whitespace}
  IN  IF t = << >> THEN << >>
      ELSE IF ws = {} THEN << t >>
      ELSE LET k == CHOOSE x \in ws : \A y \in ws : x <= y
           IN  << Slice(t, 1, k - 1) >> \o SplitWords(Slice(t, k, Len(t)))

\* a < b for Python strings: lexicographic by code point
RECURSIVE StrLess(_, _)
StrLess(a, b) ==
  IF b = << >> THEN FALSE
  ELSE IF a = << >> THEN TRUE
  ELSE IF Ord(a[1]) # Ord(b[1]) THEN Ord(a[1]) < Ord(b[1])
  ELSE StrLess(Tail(a), Tail(b))

\* '\n'.join(lines)
RECURSIVE JoinLines(_)
JoinLines(lines) ==
  IF lines = << >> THEN << >>
  ELSE IF Len(lines) = 1 THEN lines[1]
  ELSE lines[1] \o << "\n" >> \o JoinLines(Tail(lines))

\* ------------------------------------------------------------------------
\* Name parser / filter: search_institution_faculty
\* ------------------------------------------------------------------------

\* line 70: len(line) > 60
MaxNameLen == 60
\* line 74: len(line.split()) >= 2
MinTokens == 2

\* line 63: the characters of lstrip('-•*0123456789. ')
BulletChars ==
  {"-", Bullet, "*", "0", "1", "2", "3", "4", "5", "6", "7", "8", "9", ".", " "}

\* line 68: the narrative lead-ins
LeadIns ==
  { << "b", "a", "s", "e", "d", " ", "o", "n" >>,
    << "p", "l", "e", "a", "s", "e", " ", "n", "o", "t", "e" >>,
    << "h", "e", "r", "e", " ", "i", "s" >>,
    << "t", "h", "e", " ", "f", "o", "l", "l", "o", "w", "i", "n", "g" >> }

\* a line stripped of its surrounding whitespace only
CleanLineNoLStrip(raw) == Strip(raw)

\* lines 61-63: what is left of a raw line
CleanLine(raw) ==
  LET line == Strip(raw)
  IN  IF line = << >> THEN line ELSE LStripChars(line, BulletChars)

\* the filter with the length test off by one and any comma rejected
AcceptLineStricter(raw) ==
  LET line == CleanLine(raw)
  IN  /\ Strip(raw) # << >>
      /\ ~ (line = << >> \/ Contains(line, << "*", "*" >>) \/ EndsWith(line, << ":" >>))
      /\ ~ \E p \in LeadIns : StartsWith(Lower(line), p)
      /\ ~ (Len(line) >= MaxNameLen \/ Contains(line, << "," >>))
      /\ Len(SplitWords(line)) >= MinTokens

\* lines 62-75: whether a raw line yields a name
AcceptLine(raw) ==
  LET line == CleanLine(raw)
  IN  /\ Strip(raw) # << >>
      /\ ~ (line = << >> \/ Contains(line, << "*", "*" >>) \/ EndsWith(line, << ":" >>))
      /\ ~ \E p \in LeadIns : StartsWith(Lower(line), p)
      /\ ~ (Len(line) > MaxNameLen \/ (Contains(line, << "," >>) /\ CountChar(line, ",") > 1))
      /\ Len(SplitWords(line)) >= MinTokens

\* lines 59-75: the names of a sequence of raw lines, in order
RECURSIVE NamesOfLines(_)
NamesOfLines(lines) ==
  IF lines = << >> THEN << >>
  ELSE (IF AcceptLine(lines[1]) THEN << CleanLine(lines[1]) >> ELSE << >>)
       \o NamesOfLines(Tail(lines))

\* lines 60-78: output_text.strip().split('\n'), filtered
ParseNames(text) == NamesOfLines(SplitOn(Strip(text), "\n"))

\* A response of the discovery call: kind "error" (the request or the parsing
\* raised), "status" (a status other than 200) or "ok" with the answer's text.
\* lines 46-85
search_institution_faculty(resp) ==
  IF resp.kind = "ok" THEN ParseNames(resp.body) ELSE << >>

\* ------------------------------------------------------------------------
\* Identity registry client
\* ------------------------------------------------------------------------
\* A response is [kind, body]: kind "error" (the request raised: network
\* error, timeout, a status raise_for_status rejects, a body that does not
\* parse), "status" (a status other than 200, where the code tests it) or
\* "ok" with the parsed body.  An optional JSON key is a sequence of length 0
\* (absent) or 1.

\* Python truthiness of None, '' and other strings
Truthy(x) == x \notin {None, ""}

BaiSchema == "INSPIRE BAI"

\* lines 113-117, 204-208: the value of the first id entry of the BAI schema
RECURSIVE ExtractBai(_)
ExtractBai(ids) ==
  IF ids = << >> THEN None
  ELSE IF ids[1].schema = BaiSchema THEN ids[1].value
  ELSE ExtractBai(Tail(ids))

NoUrl == << None >>
\* f"https://inspirehep.net/authors/{control_number}"
AuthorUrl(control_number) == << "https://inspirehep.net/authors/", control_number >>

\* lines 123-129: the record of a hit of the name search
ProfileOf(name, hit) ==
  [ name |-> name,
    inspire_bai |-> ExtractBai(hit.ids),
    inspire_id |-> hit.id,
    url |-> IF Truthy(hit.id) THEN AuthorUrl(hit.id) ELSE NoUrl,
    publication_count |-> hit.papers ]

\* lines 98-135: None (the empty sequence) or the record of the first hit
search_inspire_profile(name, resp) ==
  IF resp.kind = "ok" /\ resp.body # << >>
  THEN << ProfileOf(name, resp.body[1]) >>
  ELSE << >>

\* line 346: the record of a name without a profile
Unmatched(name) ==
  [ name |-> name, inspire_bai |-> None, inspire_id |-> None, url |-> NoUrl ]

InstRefToken == "/institutions/"
ApiBase == "https://inspirehep.net/api"
\* the $ref of an institution record
InstRef(inst_id) == << ApiBase, InstRefToken >> \o inst_id

\* record_ref.split('/institutions/')[-1]
AfterLastInstToken(ref) ==
  LET parts == SplitOn(ref, InstRefToken) IN parts[Len(parts)]

\* the institution id of a position whatever its current flag
PositionInstIdsAnyPosition(position) ==
  IF position.record = << >> THEN {}
  ELSE IF Contains(position.record[1], << InstRefToken >>)
       THEN {AfterLastInstToken(position.record[1])}
       ELSE {}

\* lines 151-158: the institution id a position contributes, if any
PositionInstIds(position) ==
  IF ~ position.current THEN {}
  ELSE IF position.record = << >> THEN {}
  ELSE IF Contains(position.record[1], << InstRefToken >>)
       THEN {AfterLastInstToken(position.record[1])}
       ELSE {}

\* lines 142-163: the current institution ids of a profile
get_author_affiliations(resp) ==
  IF resp.kind = "ok"
  THEN UNION {PositionInstIds(resp.body[k]) : k \in 1..Len(resp.body)}
  ELSE {}

Unknown == << "U", "n", "k", "n", "o", "w", "n" >>

\* lines 169-175: legacy_ICN, 'Unknown' when absent or on any failure
get_institution_name(resp) ==
  IF resp.kind = "ok" /\ resp.body # << >> THEN resp.body[1] ELSE Unknown

\* lines 198-201: preferred_name, else value, else 'Unknown'
HitName(hit) ==
  IF hit.name = << >> THEN Unknown
  ELSE IF hit.name[1].preferred_name # << >> THEN hit.name[1].preferred_name[1]
  ELSE IF hit.name[1].value # << >> THEN hit.name[1].value[1]
  ELSE Unknown

\* lines 214-222: some current position's $ref contains '/institutions/<inst_id>'
CurrentHere(hit, inst_id) ==
  \E k \in 1..Len(hit.positions) :
    /\ hit.positions[k].current
    /\ hit.positions[k].record # << >>
    /\ Contains(hit.positions[k].record[1], << InstRefToken >> \o inst_id)

\* lines 226-232: the record of a hit of the membership query
AuthorOf(hit) ==
  [ name |-> HitName(hit),
    inspire_bai |-> ExtractBai(hit.ids),
    inspire_id |-> hit.id,
    url |-> AuthorUrl(hit.id),
    publication_count |-> hit.papers ]

\* line 225: the filter of the membership query
KeepAuthor(hit, inst_id) == CurrentHere(hit, inst_id) /\ Truthy(ExtractBai(hit.ids))

RECURSIVE AuthorsOfHits(_, _)
AuthorsOfHits(inst_id, hits) ==
  IF hits = << >> THEN << >>
  ELSE (IF KeepAuthor(hits[1], inst_id) THEN << AuthorOf(hits[1]) >> ELSE << >>)
       \o AuthorsOfHits(inst_id, Tail(hits))

\* lines 187-238: the current authors at an institution, [] on any failure
get_authors_at_institution(inst_id, resp) ==
  IF resp.kind = "ok" THEN AuthorsOfHits(inst_id, resp.body) ELSE << >>

\* ------------------------------------------------------------------------
\* Affiliation expander and reconciler: the pure parts
\* ------------------------------------------------------------------------

\* line 268: len(word) > 3
KeywordMinLen == 3

\* line 268: the lower-cased words of the target name longer than 3 characters
RECURSIVE KeywordsOfWords(_)
KeywordsOfWords(words) ==
  IF words = << >> THEN << >>
  ELSE (IF Len(words[1]) > KeywordMinLen THEN << Lower(words[1]) >> ELSE << >>)
       \o KeywordsOfWords(Tail(words))

target_keywords(institution_name) == KeywordsOfWords(SplitWords(institution_name))

\* the keywords looked for in the name as it is spelled
PassesFilterCaseSensitive(inst_name, keywords) ==
  \E k \in 1..Len(keywords) : Contains(inst_name, keywords[k])

\* line 275: any(keyword in inst_name.lower() for keyword in target_keywords)
PassesFilter(inst_name, keywords) ==
  \E k \in 1..Len(keywords) : Contains(Lower(inst_name), keywords[k])

\* the filter's result as it is, without the fallback
SurvivingIdsNoFallback(filtered_ids, institution_ids) == filtered_ids

\* lines 280-284: the institutions to query
SurvivingIds(filtered_ids, institution_ids) ==
  IF filtered_ids = {} THEN institution_ids ELSE filtered_ids

\* the least string of a non-empty set
MinStr(S) == CHOOSE a \in S : \A b \in S : a = b \/ StrLess(a, b)

\* the surviving ids in the set's own order
NextInSetOrder(rest) == rest

\* line 289: for inst_id in sorted(filtered_ids): the ids that may come next
\* when `rest` are still to be queried
NextSorted(rest) == {MinStr(rest)}

\* line 273: for inst_id in institution_ids: a set is iterated in an order
\* the language does not fix
NextOfSet(rest) == rest

\* a mapping that keeps the value of the first insertion of a key
DictPutKeepFirst(dict, author) ==
  IF \E k \in 1..Len(dict) : dict[k].inspire_bai = author.inspire_bai
  THEN dict
  ELSE Append(dict, author)

\* line 297: all_authors[bai] = author; a dict keeps the place of the first
\* insertion of a key and the value of the last
DictPut(dict, author) ==
  IF \E k \in 1..Len(dict) : dict[k].inspire_bai = author.inspire_bai
  THEN [k \in 1..Len(dict) |->
          IF dict[k].inspire_bai = author.inspire_bai THEN author ELSE dict[k]]
  ELSE Append(dict, author)

\* lines 294-297
RECURSIVE DictPutAll(_, _)
DictPutAll(dict, authors) ==
  IF authors = << >> THEN dict
  ELSE DictPutAll(IF Truthy(authors[1].inspire_bai)
                  THEN DictPut(dict, authors[1]) ELSE dict,
                  Tail(authors))

\* line 352: [r for r in results if r.get('inspire_id')]
MatchedOnly(results) == SelectSeq(results, LAMBDA r : Truthy(r.inspire_id))

\* inserting r after the last element that is not greater: a stable sort
RECURSIVE InsertByName(_, _)
InsertByName(sorted, r) ==
  IF sorted = << >> THEN << r >>
  ELSE IF StrLess(r.name, sorted[1].name) THEN << r >> \o sorted
  ELSE << sorted[1] >> \o InsertByName(Tail(sorted), r)

RECURSIVE SortAcc(_, _)
SortAcc(acc, list) ==
  IF list = << >> THEN acc ELSE SortAcc(InsertByName(acc, list[1]), Tail(list))

\* the rows in the order of the list
SortedByNameNoSort(list) == list

\* line 372: sorted(expanded_results, key=lambda x: x['name'])
SortedByName(list) == SortAcc(<< >>, list)

\* lines 373-379: one row of the report
ReportRow(result) ==
  [ name |-> result.name,
    bai |-> IF Truthy(result.inspire_bai) THEN result.inspire_bai ELSE "N/A",
    link |-> result.url,
    pubs |-> IF "publication_count" \in DOMAIN result THEN result.publication_count ELSE 0 ]

\* lines 372-379: the rows of the report
ReportRows(expanded_results) ==
  LET sorted == SortedByName(expanded_results)
  IN  [k \in 1..Len(sorted) |-> ReportRow(sorted[k])]

\* ------------------------------------------------------------------------
\* The environment: the answers the discovery source and the registry give
\* ------------------------------------------------------------------------

Err == [kind |-> "error", body |-> << >>]
NotOk == [kind |-> "status", body |-> << >>]
Ok(body) == [kind |-> "ok", body |-> body]
Failed(kind) == kind \in {"error", "status"}

\* target institution names: one without a word longer than 3 characters, and
\* one whose keyword is part of 'unknown'
TargetPool ==
  { << "M", "I", "T" >>,
    << "Y", "a", "l", "e", " ", "U" >>,
    << "K", "n", "o", "w", " ", "U" >> }

NameAl == << "a", "l", " ", "B", "o" >>
NameCy == << "C", "y", " ", "D", "i" >>
NamePool == {NameAl, NameCy}

\* raw lines of a discovery answer: a bulleted name, a bare name, a heading
LinePool ==
  { << "-", " ", "a", "l", " ", "B", "o" >>,
    << "C", "y", " ", "D", "i" >>,
    << "N", "o", "t", "e", ":" >> }

RECURSIVE SeqsUpTo(_, _)
SeqsUpTo(S, n) ==
  IF n = 0 THEN {<< >>}
  ELSE LET shorter == SeqsUpTo(S, n - 1)
       IN  shorter \cup {Append(q, x) : q \in shorter, x \in S}

DiscoveryPool ==
  {Err, NotOk} \cup {Ok(JoinLines(lines)) : lines \in SeqsUpTo(LinePool, MaxLines)}

Inst1 == << "1" >>
Inst12 == << "1", "2" >>
InstPool == {Inst1, Inst12}

BaiId(value) == [schema |-> BaiSchema, value |-> value]
OrcidId(value) == [schema |-> "ORCID", value |-> value]

\* first hits of a name search: an author with a BAI, one without a BAI, and
\* a hit with neither a control number nor a BAI
HitFull == [id |-> "1", ids |-> << OrcidId("o1"), BaiId("k1") >>, papers |-> 3]
HitNoBai == [id |-> "2", ids |-> << OrcidId("o2") >>, papers |-> 0]
HitNoId == [id |-> "", ids |-> << OrcidId("o5") >>, papers |-> 3]
SearchPool == {Err, NotOk, Ok(<< >>), Ok(<< HitFull >>), Ok(<< HitNoBai >>), Ok(<< HitNoId >>)}

IdPool == {"1", "2"}

Position(current, inst_id) == [current |-> current, record |-> << InstRef(inst_id) >>]
NoRecordPosition == [current |-> TRUE, record |-> << >>]

\* the positions of a profile
ProfilePool ==
  { Err,
    Ok(<< NoRecordPosition >>),
    Ok(<< Position(TRUE, Inst1) >>),
    Ok(<< Position(FALSE, Inst1), Position(TRUE, Inst12) >>),
    Ok(<< Position(TRUE, Inst1), Position(TRUE, Inst12) >>) }

NameYale == << "Y", "A", "L", "E" >>
NameOslo == << "O", "s", "l", "o", " ", "U" >>
\* the legacy_ICN of an institution record
InstNamePool == {Err, Ok(<< >>), Ok(<< NameYale >>), Ok(<< NameOslo >>)}

PersonName(preferred, value) == << [preferred_name |-> preferred, value |-> value] >>

\* hits of a membership query
MemberBo ==
  [ id |-> "1", ids |-> << BaiId("k1") >>, papers |-> 5,
    name |-> PersonName(<< << "B", "o" >> >>, << << "B", "o", ",", "A" >> >>),
    positions |-> << Position(TRUE, Inst1) >> ]
MemberAl ==
  [ id |-> "3", ids |-> << OrcidId("o3"), BaiId("k2") >>, papers |-> 1,
    name |-> PersonName(<< >>, << << "a", "l" >> >>),
    positions |-> << Position(TRUE, Inst12) >> ]
MemberCy ==
  [ id |-> "1", ids |-> << BaiId("k1") >>, papers |-> 6,
    name |-> PersonName(<< << "C", "y" >> >>, << >>),
    positions |-> << Position(FALSE, Inst1), Position(TRUE, Inst12) >> ]
MemberNoBai ==
  [ id |-> "4", ids |-> << OrcidId("o4") >>, papers |-> 2,
    name |-> << >>,
    positions |-> << Position(TRUE, Inst1) >> ]

MembersPool ==
  { Err,
    Ok(<< >>),
    Ok(<< MemberBo >>),
    Ok(<< MemberAl, MemberBo >>),
    Ok(<< MemberCy >>),
    Ok(<< MemberNoBai, MemberAl >>) }

\* ------------------------------------------------------------------------
\* State
\* ------------------------------------------------------------------------

VARIABLES
  institution,       \* the institution argument of find_researchers
  registry,          \* fixed answers per argument, or answers free per call
  run,               \* the number of the current run of find_researchers
  prev,              \* what the previous run returned and reported
  pc,                \* the position in find_researchers / expand_via_inspire
  names,             \* search_institution_faculty's result
  results,           \* find_researchers: results
  i,                 \* 1-based index of the running for loop
  institution_ids,   \* expand_via_inspire: institution_ids
  todo,              \* the ids the running loop over a set has not visited
  filtered_ids,      \* expand_via_inspire: filtered_ids
  all_authors,       \* expand_via_inspire: all_authors, in insertion order
  expanded_results,  \* find_researchers: the list it returns
  report,            \* the rows written to output_file
  calls,             \* the external calls of this run, counted per item
  max_researchers,   \* rank_institution: max_researchers, 0 for None
  researchers,       \* rank_institution: researchers
  cache,             \* the stable keys that have a file in the cache directory
  paper_files,       \* rank_institution: paper_files, by stable key
  fetched,           \* the stable keys get_author_papers was called for, in order
  last               \* the latest external call, its answer and what it returned

\* the state of rank_institution around its call of find_researchers
rankVars == << max_researchers, researchers, cache, paper_files, fetched >>

vars ==
  << institution, registry, run, prev, pc, names, results, i, institution_ids,
     todo, filtered_ids, all_authors, expanded_results, report, calls, last,
     rankVars >>

\* sauron.py:145-146: the only caller passes an output file
OutputFile == TRUE

NoInstCalls == [x \in {} |-> 0]

NoCalls ==
  [ discover |-> 0, search |-> << >>, profile |-> << >>,
    instname |-> NoInstCalls, members |-> NoInstCalls ]

NoReport == [written |-> FALSE, rows |-> << >>]
\* no call yet
NoLast ==
  [ call |-> "none", idx |-> 0, inst |-> << >>, kind |-> "none",
    body |-> << >>, out |-> << >> ]

\* one more call for item k of a loop over a list
CountAt(counts, k) ==
  IF k \in DOMAIN counts THEN [counts EXCEPT ![k] = @ + 1] ELSE Append(counts, 1)

\* one more call for institution inst_id
CountInst(counts, inst_id) ==
  IF inst_id \in DOMAIN counts THEN [counts EXCEPT ![inst_id] = @ + 1]
  ELSE counts @@ (inst_id :> 1)

Free == [fixed |-> FALSE]

\* the answers a call may get
DiscoveryAnswers == IF registry.fixed THEN {registry.discovery} ELSE DiscoveryPool
SearchAnswers(name) == IF registry.fixed THEN {registry.search[name]} ELSE SearchPool
ProfileAnswers(id) == IF registry.fixed THEN {registry.profile[id]} ELSE ProfilePool
InstNameAnswers(inst_id) ==
  IF registry.fixed THEN {registry.instname[inst_id]} ELSE InstNamePool
MembersAnswers(inst_id) ==
  IF registry.fixed THEN {registry.members[inst_id]} ELSE MembersPool

\* the state a run of find_researchers starts in
Fresh ==
  /\ pc = "start"
  /\ names = << >>
  /\ results = << >>
  /\ i = 0
  /\ institution_ids = {}
  /\ todo = {}
  /\ filtered_ids = {}
  /\ all_authors = << >>
  /\ expanded_results = << >>
  /\ report = NoReport
  /\ calls = NoCalls
  /\ last = NoLast

\* sauron.py:104, 164-165: no limit, an empty cache directory, no paper yet
Idle ==
  /\ max_researchers = 0
  /\ researchers = << >>
  /\ cache = {}
  /\ paper_files = << >>
  /\ fetched = << >>

Init ==
  /\ institution \in TargetPool
  /\ registry = Free
  /\ run = 1
  /\ prev = << >>
  /\ Fresh
  /\ Idle

\* ------------------------------------------------------------------------
\* find_researchers and expand_via_inspire, one action per external call or
\* block between calls
\* ------------------------------------------------------------------------

\* a call without its try/except: an error of the request raises
PropagatesErrors(call, resp) == resp.kind = "error"

\* lines 83, 133, 162, 174, 236: every call wraps its request and its parsing
\* in try/except, so no answer makes a call raise into the pipeline
Propagates(call, resp) == FALSE

\* a loop that calls again for an item whose call failed
AfterItemRetry(k, resp) == IF resp.kind = "error" THEN k ELSE k + 1

\* the for loops of lines 257 and 337 go on to the next item whatever the
\* call of the current item returned
AfterItem(k, resp) == k + 1

\* a pipeline that goes on with no name
NothingFoundNever(found) == FALSE

\* line 327: if not names
NothingFound(found) == found = << >>

\* an exception no handler catches ends find_researchers
Raise ==
  /\ pc' = "raised"
  /\ UNCHANGED << names, results, i, institution_ids, todo, filtered_ids,
                  all_authors, expanded_results, report, calls >>

\* lines 325-329: the discovery call and the early return
Discover ==
  /\ pc = "start"
  /\ \E resp \in DiscoveryAnswers :
       /\ last' = [ call |-> "discover", idx |-> 0, inst |-> << >>, kind |-> resp.kind,
                    body |-> resp.body, out |-> search_institution_faculty(resp) ]
       /\ IF Propagates("discover", resp) THEN Raise
          ELSE LET found == search_institution_faculty(resp)
               IN  /\ names' = found
                   /\ calls' = [calls EXCEPT !.discover = @ + 1]
                   /\ IF NothingFound(found)
                      THEN pc' = "returned" /\ i' = i
                      ELSE pc' = "match" /\ i' = 1
                   /\ UNCHANGED << results, institution_ids, todo, filtered_ids,
                                   all_authors, expanded_results, report >>
  /\ UNCHANGED << rankVars, institution, registry, run, prev >>

\* lines 337-347: one name of the matching loop
Match ==
  /\ pc = "match"
  /\ i <= Len(names)
  /\ \E resp \in SearchAnswers(names[i]) :
       /\ last' = [ call |-> "search", idx |-> i, inst |-> << >>, kind |-> resp.kind,
                    body |-> resp.body, out |-> search_inspire_profile(names[i], resp) ]
       /\ IF Propagates("search", resp) THEN Raise
          ELSE LET profile == search_inspire_profile(names[i], resp)
               IN  /\ results' = Append(results,
                                        IF profile # << >> THEN profile[1]
                                        ELSE Unmatched(names[i]))
                   /\ calls' = [calls EXCEPT !.search = CountAt(@, i)]
                   /\ i' = AfterItem(i, resp)
                   /\ UNCHANGED << pc, names, institution_ids, todo, filtered_ids,
                                   all_authors, expanded_results, report >>
  /\ UNCHANGED << rankVars, institution, registry, run, prev >>

\* the records without those of a name an earlier record has
RECURSIVE AllResultsDistinct(_)
AllResultsDistinct(list) ==
  IF list = << >> THEN << >>
  ELSE LET front == SubSeq(list, 1, Len(list) - 1)
           r == list[Len(list)]
       IN  IF \E j \in 1..Len(front) : front[j].name = r.name
           THEN AllResultsDistinct(front)
           ELSE Append(AllResultsDistinct(front), r)

\* line 357: expanded_results = results
AllResults(list) == list

\* lines 352-357, 255: the split into matched and the rest
Split ==
  /\ pc = "match"
  /\ i > Len(names)
  /\ IF MatchedOnly(results) # << >>
     THEN /\ pc' = "phaseA"
          /\ i' = 1
          /\ institution_ids' = {}
          /\ UNCHANGED expanded_results
     ELSE /\ pc' = "write"
          /\ expanded_results' = AllResults(results)
          /\ UNCHANGED << i, institution_ids >>
  /\ UNCHANGED << rankVars, institution, registry, run, prev, names, results, todo,
                  filtered_ids, all_authors, report, calls, last >>

\* lines 257-261: the profile of one matched record
PhaseA ==
  /\ pc = "phaseA"
  /\ i <= Len(MatchedOnly(results))
  /\ LET result == MatchedOnly(results)[i]
     IN  IF Truthy(result.inspire_id)
         THEN \E resp \in ProfileAnswers(result.inspire_id) :
                /\ last' = [ call |-> "profile", idx |-> i, inst |-> << >>,
                             kind |-> resp.kind, body |-> resp.body,
                             out |-> get_author_affiliations(resp) ]
                /\ IF Propagates("profile", resp) THEN Raise
                   ELSE /\ institution_ids' =
                             institution_ids \cup get_author_affiliations(resp)
                        /\ calls' = [calls EXCEPT !.profile = CountAt(@, i)]
                        /\ i' = AfterItem(i, resp)
                        /\ UNCHANGED << pc, names, results, todo, filtered_ids,
                                        all_authors, expanded_results, report >>
         ELSE /\ i' = i + 1
              /\ UNCHANGED << pc, names, results, institution_ids, todo, filtered_ids,
                              all_authors, expanded_results, report, calls, last >>
  /\ UNCHANGED << rankVars, institution, registry, run, prev >>

\* nothing handed back
HandBackNothing(initial_matches) == << >>

\* line 265: return initial_matches
HandBack(initial_matches) == initial_matches

\* lines 263-271: no institution id hands the matched records back
EndA ==
  /\ pc = "phaseA"
  /\ i > Len(MatchedOnly(results))
  /\ IF institution_ids = {}
     THEN /\ pc' = "write"
          /\ expanded_results' = HandBack(MatchedOnly(results))
          /\ UNCHANGED << todo, filtered_ids >>
     ELSE /\ pc' = "phaseB"
          /\ filtered_ids' = {}
          /\ todo' = institution_ids
          /\ UNCHANGED expanded_results
  /\ UNCHANGED << rankVars, institution, registry, run, prev, names, results, i,
                  institution_ids, all_authors, report, calls, last >>

\* lines 273-278: the name of one candidate institution
PhaseB ==
  /\ pc = "phaseB"
  /\ todo # {}
  /\ \E inst_id \in NextOfSet(todo) : \E resp \in InstNameAnswers(inst_id) :
       /\ last' = [ call |-> "instname", idx |-> 0, inst |-> inst_id, kind |-> resp.kind,
                    body |-> resp.body, out |-> get_institution_name(resp) ]
       /\ IF Propagates("instname", resp) THEN Raise
          ELSE LET inst_name == get_institution_name(resp)
               IN  /\ filtered_ids' =
                        IF PassesFilter(inst_name, target_keywords(institution))
                        THEN filtered_ids \cup {inst_id} ELSE filtered_ids
                   /\ todo' = todo \ {inst_id}
                   /\ calls' = [calls EXCEPT !.instname = CountInst(@, inst_id)]
                   /\ UNCHANGED << pc, names, results, i, institution_ids,
                                   all_authors, expanded_results, report >>
  /\ UNCHANGED << rankVars, institution, registry, run, prev >>

\* lines 280-287: the fallback to every candidate
EndB ==
  /\ pc = "phaseB"
  /\ todo = {}
  /\ pc' = "phaseC"
  /\ filtered_ids' = SurvivingIds(filtered_ids, institution_ids)
  /\ todo' = filtered_ids'
  /\ all_authors' = << >>
  /\ UNCHANGED << rankVars, institution, registry, run, prev, names, results, i,
                  institution_ids, expanded_results, report, calls, last >>

\* lines 289-299: the members of one surviving institution
PhaseC ==
  /\ pc = "phaseC"
  /\ todo # {}
  /\ \E inst_id \in NextSorted(todo) : \E resp \in MembersAnswers(inst_id) :
       /\ last' = [ call |-> "members", idx |-> 0, inst |-> inst_id, kind |-> resp.kind,
                    body |-> resp.body, out |-> get_authors_at_institution(inst_id, resp) ]
       /\ IF Propagates("members", resp) THEN Raise
          ELSE LET authors == get_authors_at_institution(inst_id, resp)
               IN  /\ all_authors' = DictPutAll(all_authors, authors)
                   /\ todo' = todo \ {inst_id}
                   /\ calls' = [calls EXCEPT !.members = CountInst(@, inst_id)]
                   /\ UNCHANGED << pc, names, results, i, institution_ids,
                                   filtered_ids, expanded_results, report >>
  /\ UNCHANGED << rankVars, institution, registry, run, prev >>

\* the matched records first, then the mapping's records of other keys
ExpandOutputMatchedFirst(initial_matches, authors) ==
  initial_matches
    \o SelectSeq(authors, LAMBDA a :
         \A k \in 1..Len(initial_matches) : initial_matches[k].inspire_bai # a.inspire_bai)

\* the mapping's records, then the matched records the mapping does not hold
ExpandOutputUnion(initial_matches, authors) ==
  authors
    \o SelectSeq(initial_matches, LAMBDA m :
         \A k \in 1..Len(authors) : authors[k].inspire_bai # m.inspire_bai)

\* lines 301-310: expanded_list is the mapping's values; initial_matches only
\* serves the count of new discoveries that is printed
ExpandOutput(initial_matches, authors) == authors

\* lines 301-310: the values of the mapping
EndC ==
  /\ pc = "phaseC"
  /\ todo = {}
  /\ pc' = "write"
  /\ expanded_results' = ExpandOutput(MatchedOnly(results), all_authors)
  /\ UNCHANGED << rankVars, institution, registry, run, prev, names, results, i,
                  institution_ids, todo, filtered_ids, all_authors, report, calls, last >>

\* lines 360-384: the report, sorted, and the return of the unsorted list
Write ==
  /\ pc = "write"
  /\ pc' = "returned"
  /\ report' = IF OutputFile
               THEN [written |-> TRUE, rows |-> ReportRows(expanded_results)]
               ELSE report
  /\ UNCHANGED << rankVars, institution, registry, run, prev, names, results, i,
                  institution_ids, todo, filtered_ids, all_authors,
                  expanded_results, calls, last >>

Next ==
  \/ Discover
  \/ Match
  \/ Split
  \/ PhaseA
  \/ EndA
  \/ PhaseB
  \/ EndB
  \/ PhaseC
  \/ EndC
  \/ Write

Spec == Init /\ [][Next]_vars

\* ------------------------------------------------------------------------
\* Re-running find_researchers against a registry whose answers are fixed
\* ------------------------------------------------------------------------

\* registries that answer a call by its argument alone
FixedRegistries ==
  { [ fixed |-> TRUE, discovery |-> d, search |-> s, profile |-> p,
      instname |-> n, members |-> m ] :
      d \in {Ok(JoinLines(<< << "-", " ", "a", "l", " ", "B", "o" >>, NameCy >>))},
      s \in [NamePool -> {Ok(<< HitFull >>), Ok(<< HitNoBai >>)}],
      p \in [IdPool -> { Ok(<< Position(TRUE, Inst1) >>),
                         Ok(<< Position(TRUE, Inst1), Position(TRUE, Inst12) >>) }],
      n \in [InstPool -> {Err, Ok(<< NameYale >>)}],
      m \in [InstPool -> MembersPool \ {Ok(<< >>)}] }

DetInit ==
  /\ institution \in TargetPool
  /\ registry \in FixedRegistries
  /\ run = 1
  /\ prev = << >>
  /\ Fresh
  /\ Idle

\* sauron.py:146: the next run starts from nothing but the same registry
ReRun ==
  /\ pc = "returned"
  /\ run < MaxRuns
  /\ run' = run + 1
  /\ prev' = << [returned |-> expanded_results, report |-> report] >>
  /\ pc' = "start"
  /\ names' = << >>
  /\ results' = << >>
  /\ i' = 0
  /\ institution_ids' = {}
  /\ todo' = {}
  /\ filtered_ids' = {}
  /\ all_authors' = << >>
  /\ expanded_results' = << >>
  /\ report' = NoReport
  /\ calls' = NoCalls
  /\ last' = NoLast
  /\ UNCHANGED << rankVars, institution, registry >>

DetNext ==
  \/ Next
  \/ ReRun

DetSpec == DetInit /\ [][DetNext]_vars

\* ------------------------------------------------------------------------
\* Properties
\* ------------------------------------------------------------------------

Returned == pc = "returned"

\* the elements of a list
Elems(list) == {list[k] : k \in 1..Len(list)}

\* the non-empty stable keys of a list of records
Keys(list) == {r.inspire_bai : r \in {x \in Elems(list) : Truthy(x.inspire_bai)}}

\* C1: the list find_researchers returns holds at most one record per
\* non-empty stable key (inspire_bai).
C1_UniqueStableKeys ==
  Returned =>
    \A a, b \in 1..Len(expanded_results) :
      (a # b /\ Truthy(expanded_results[a].inspire_bai))
        => expanded_results[a].inspire_bai # expanded_results[b].inspire_bai

\* C2: every accepted name for which the matcher returned no identity is in
\* the returned list as a record without a stable key.
C2_UnmatchedRetained ==
  Returned =>
    \A k \in 1..Len(results) :
      results[k] = Unmatched(names[k])
        => \E j \in 1..Len(expanded_results) :
             /\ expanded_results[j].name = names[k]
             /\ ~ Truthy(expanded_results[j].inspire_bai)

\* the fields the precedence law names
Fields(r) == << r.name, r.inspire_id, r.url, r.publication_count >>

\* C3: a stable key carried by a matched record and by a record of the
\* membership enumeration is in the returned list exactly once, with the
\* fields (name, canonical id, URL, publication count) of the enumeration's
\* record.
C3_ExpansionTakesPrecedence ==
  Returned =>
    \A m \in Elems(MatchedOnly(results)) : \A e \in Elems(all_authors) :
      (Truthy(m.inspire_bai) /\ m.inspire_bai = e.inspire_bai)
        => /\ \E j \in 1..Len(expanded_results) :
                expanded_results[j].inspire_bai = e.inspire_bai
           /\ \A j \in 1..Len(expanded_results) :
                expanded_results[j].inspire_bai = e.inspire_bai
                  => Fields(expanded_results[j]) = Fields(e)

\* C3 witness: a key matched under the searched name comes back from the
\* enumeration under another name and count, and the run has returned.
C3_Witness ==
  /\ Returned
  /\ \E m \in Elems(MatchedOnly(results)) : \E e \in Elems(expanded_results) :
       /\ Truthy(m.inspire_bai)
       /\ m.inspire_bai = e.inspire_bai
       /\ e \in Elems(all_authors)
       /\ m.name # e.name
       /\ m.publication_count # e.publication_count

\* whether a matched record, or a record of its stable key, is in a list
Appears(m, list) ==
  \E r \in Elems(list) :
    r = m \/ (Truthy(m.inspire_bai) /\ r.inspire_bai = m.inspire_bai)

\* the matched records whose stable key the enumeration did not return
NotRediscovered ==
  {m \in Elems(MatchedOnly(results)) : m.inspire_bai \notin Keys(all_authors)}

\* C4 as stated: whenever what expand_via_inspire returns is non-empty, no
\* matched record whose key the enumeration did not return is in the final
\* output.
C4_DroppedWhenOutputNonEmpty ==
  (Returned /\ MatchedOnly(results) # << >> /\ expanded_results # << >>)
    => \A m \in NotRediscovered : Truthy(m.inspire_bai) => ~ Appears(m, expanded_results)

\* C4 amended: whenever a matched identity yields a current institution id,
\* so that the membership enumeration runs, no matched record whose key the
\* enumeration did not return is in the final output; when none yields one,
\* the final output is the list of the matched records.
C4_DroppedWhenEnumerated ==
  /\ (Returned /\ institution_ids # {})
       => \A m \in NotRediscovered : ~ Appears(m, expanded_results)
  /\ (Returned /\ MatchedOnly(results) # << >> /\ institution_ids = {})
       => expanded_results = MatchedOnly(results)

\* C4 witness: the enumeration returned somebody, but not a matched identity.
C4_Witness ==
  /\ Returned
  /\ institution_ids # {}
  /\ expanded_results # << >>
  /\ \E m \in NotRediscovered : Truthy(m.inspire_bai)

\* the institutions a counter has counted
Counted(counts) == DOMAIN counts

\* the block of lines 280-284 is about to run with nothing in filtered_ids
FilterEliminatedAll ==
  pc = "phaseB" /\ todo = {} /\ institution_ids # {} /\ filtered_ids = {}

\* C5: when the candidate set is non-empty and no candidate passed the
\* keyword filter, the enumeration is set to query every candidate; and a run
\* that found candidates has queried every surviving institution, at least
\* one, and every candidate when the target name has no keyword.
C5_FallbackQueriesAll ==
  /\ [][FilterEliminatedAll => (todo' = institution_ids /\ filtered_ids' = institution_ids)]_vars
  /\ []((Returned /\ institution_ids # {})
          => /\ Counted(calls.members) = filtered_ids
             /\ filtered_ids # {}
             /\ (target_keywords(institution) = << >> => filtered_ids = institution_ids))

\* C5 witness: under a target name with a keyword the only candidate's name
\* lookup failed, so nothing passed the filter, and the candidate is set to
\* be queried.
C5_Witness ==
  /\ pc = "phaseC"
  /\ target_keywords(institution) # << >>
  /\ Cardinality(institution_ids) = 1
  /\ last.call = "instname"
  /\ last.kind = "error"
  /\ todo = institution_ids

\* no registry call was counted
NoRegistryCalls ==
  /\ calls.search = << >>
  /\ calls.profile = << >>
  /\ Counted(calls.instname) = {}
  /\ Counted(calls.members) = {}

\* C6: a failed discovery call yields no name, and once discovery has yielded
\* no name find_researchers has returned the empty list without any matcher,
\* profile, institution-name or membership call.
C6_EmptyDiscoveryShortCircuits ==
  /\ (last.call = "discover" /\ Failed(last.kind)) => names = << >>
  /\ (pc # "start" /\ names = << >>)
       => /\ Returned
          /\ expanded_results = << >>
          /\ calls.discover = 1
          /\ NoRegistryCalls

\* C6 witness: the discovery call failed and the run has returned.
C6_Witness ==
  /\ Returned
  /\ last.call = "discover"
  /\ last.kind = "error"
  /\ names = << >>

\* a step that made an external call whose answer was a failure
FailedCall == calls' # calls /\ Failed(last'.kind)

\* what a failed call leaves behind: the default for its item, and the loop
\* one item further
FailureDegrades ==
  FailedCall =>
    /\ last'.call = "discover" => (names' = << >> /\ pc' = "returned")
    /\ last'.call = "search" =>
         /\ results' = Append(results, Unmatched(names[i]))
         /\ i' = i + 1
         /\ pc' = pc
    /\ last'.call = "profile" =>
         /\ institution_ids' = institution_ids
         /\ i' = i + 1
         /\ pc' = pc
    /\ last'.call = "instname" =>
         /\ filtered_ids' \in {filtered_ids, filtered_ids \cup {last'.inst}}
         /\ (last'.inst \in filtered_ids')
              = PassesFilter(Unknown, target_keywords(institution))
         /\ todo' = todo \ {last'.inst}
         /\ pc' = pc
    /\ last'.call = "members" =>
         /\ all_authors' = all_authors
         /\ todo' = todo \ {last'.inst}
         /\ pc' = pc

\* every item of every loop the run went through got its call
AllItemsProcessed ==
  /\ names # << >> => DOMAIN calls.search = 1..Len(names) /\ Len(results) = Len(names)
  /\ MatchedOnly(results) # << >> => DOMAIN calls.profile = 1..Len(MatchedOnly(results))
  /\ institution_ids # {} =>
       /\ Counted(calls.instname) = institution_ids
       /\ Counted(calls.members) = filtered_ids

\* C7: a failed call yields the empty list of names, None, the empty set,
\* 'Unknown' or the empty list for its item only and the loop goes on; no
\* call raises into find_researchers, which has processed every item of
\* every loop it entered when it returns.
C7_FailureNeverHalts ==
  /\ [][FailureDegrades]_vars
  /\ [](pc # "raised")
  /\ [](Returned => AllItemsProcessed)

\* C7 witness: a name search, a profile fetch and the last membership query
\* failed, a second name was matched after the first failed, and the run has
\* returned.
C7_Witness ==
  /\ Returned
  /\ Len(names) = 2
  /\ results[1] = Unmatched(names[1])
  /\ Truthy(results[2].inspire_id)
  /\ Cardinality(institution_ids) = 2
  /\ last.call = "members"
  /\ last.kind = "error"

\* C8: in one run the discovery call is issued at most once, no item is
\* called for twice, and a run that has returned issued exactly one name
\* search per accepted name, exactly one profile fetch per matched record, at
\* most one name lookup per candidate institution and at most one membership
\* query per surviving institution.
C8_NoRetry ==
  /\ calls.discover <= 1
  /\ \A k \in DOMAIN calls.search : calls.search[k] = 1
  /\ \A k \in DOMAIN calls.profile : calls.profile[k] = 1
  /\ \A x \in Counted(calls.instname) : calls.instname[x] = 1 /\ x \in institution_ids
  /\ \A x \in Counted(calls.members) : calls.members[x] = 1 /\ x \in filtered_ids
  /\ Returned =>
       /\ DOMAIN calls.search = 1..Len(names)
       /\ DOMAIN calls.profile = 1..Len(MatchedOnly(results))

\* C8 witness: a run with failed calls in it has returned after two name
\* searches, two profile fetches and two membership queries.
C8_Witness ==
  /\ Returned
  /\ Len(calls.search) = 2
  /\ Len(calls.profile) = 2
  /\ Cardinality(Counted(calls.members)) = 2
  /\ last.kind = "error"

\* a list in ascending order of display name, by code point
SortedAscending(list) ==
  \A a, b \in 1..Len(list) : a < b => ~ StrLess(list[b].name, list[a].name)

\* how often a row occurs in a list of rows
Occurrences(rows, row) == Cardinality({k \in 1..Len(rows) : rows[k] = row})

\* C9 as stated: the list find_researchers returns and the rows of the
\* report are both in ascending order of display name.
C9_ReturnedListSorted ==
  Returned => SortedAscending(expanded_results) /\ SortedAscending(report.rows)

\* C9 amended: the rows of the written report are the rows of the returned
\* records in ascending, case-sensitive order of display name; the returned
\* list is the list as it was accumulated: the records of all names in
\* discovery order, the matched records in discovery order, or the mapping's
\* values in the order of first insertion.
C9_ReportRowsSorted ==
  (Returned /\ report.written) =>
    /\ \/ expanded_results = results
       \/ expanded_results = MatchedOnly(results)
       \/ expanded_results = all_authors
    /\ SortedAscending(report.rows)
    /\ Len(report.rows) = Len(expanded_results)
    /\ \A k \in 1..Len(expanded_results) :
         Occurrences(report.rows, ReportRow(expanded_results[k]))
           = Occurrences([j \in 1..Len(expanded_results) |-> ReportRow(expanded_results[j])],
                         ReportRow(expanded_results[k]))

\* C9 witness: the returned list is not in order (a lower-case name comes
\* before an upper-case one) and the report has the rows in order.
C9_Witness ==
  /\ Returned
  /\ report.written
  /\ Len(expanded_results) = 2
  /\ StrLess(expanded_results[2].name, expanded_results[1].name)
  /\ LowerChar(expanded_results[2].name[1]) # expanded_results[2].name[1]
  /\ report.rows[1].name = expanded_results[2].name

\* C10: a run against the same registry answers returns the same list, in
\* the same order, and writes the same report as the run before it, whatever
\* the order in which the set of institution ids was iterated.
C10_RerunIdentical ==
  (Returned /\ prev # << >>) =>
    /\ prev[1].returned = expanded_results
    /\ prev[1].report = report

\* C10 witness: the second run has returned two records gathered from two
\* institutions.
C10_Witness ==
  /\ Returned
  /\ run = 2
  /\ Cardinality(filtered_ids) = 2
  /\ Len(expanded_results) = 2

\* ------------------------------------------------------------------------
\* Properties of the registry client and of the expander's phases
\* ------------------------------------------------------------------------

\* a position flagged current whose reference names exactly institution
\* inst_id
CurrentAtExactly(position, inst_id) ==
  /\ position.current
  /\ position.record # << >>
  /\ Contains(position.record[1], << InstRefToken >>)
  /\ AfterLastInstToken(position.record[1]) = inst_id

\* C11: a record the membership query for institution I returned is kept by
\* get_authors_at_institution if and only if it has a non-empty stable key
\* and a position flagged current whose institution reference is exactly I.
C11_KeptIffCurrentAtExactly ==
  (last.call = "members" /\ last.kind = "ok") =>
    \A k \in 1..Len(last.body) :
      (AuthorOf(last.body[k]) \in Elems(last.out))
        <=> /\ Truthy(ExtractBai(last.body[k].ids))
            /\ \E j \in 1..Len(last.body[k].positions) :
                 CurrentAtExactly(last.body[k].positions[j], last.inst)

\* the name get_institution_name resolves an answer to
ResolvedName ==
  IF last.kind = "ok" /\ last.body # << >> THEN last.body[1] ELSE Unknown

\* the lower-cased words of the target name that are longer than 3 characters
KeywordSet ==
  {Lower(w) : w \in {x \in Elems(SplitWords(institution)) : Len(x) > 3}}

\* C12: while the candidates are filtered, the candidate looked up last is in
\* filtered_ids if and only if some keyword of the target name is a substring
\* of its lower-cased resolved name, 'Unknown' when the lookup failed or the
\* record has no name; only candidates that were looked up are in
\* filtered_ids.
C12_KeywordFilter ==
  pc = "phaseB" =>
    /\ filtered_ids \subseteq (institution_ids \ todo)
    /\ last.call = "instname" =>
         /\ last.out = ResolvedName
         /\ (last.inst \in filtered_ids)
              <=> \E keyword \in KeywordSet : Contains(Lower(ResolvedName), keyword)

\* C12 witness: of two candidates one passed by a name spelled in upper
\* case and the one looked up last failed to resolve and did not pass.
C12_Witness ==
  /\ pc = "phaseB"
  /\ todo = {}
  /\ Cardinality(institution_ids) = 2
  /\ Cardinality(filtered_ids) = 1
  /\ last.call = "instname"
  /\ last.kind = "error"
  /\ last.inst \notin filtered_ids

\* C12 witness of the other direction: an unresolved candidate passes because
\* the keyword is a substring of 'unknown'.
C12_UnknownPasses ==
  /\ pc = "phaseB"
  /\ last.call = "instname"
  /\ last.kind = "error"
  /\ last.inst \in filtered_ids

\* ------------------------------------------------------------------------
\* find_researchers against a registry that answers a profile fetch by the
\* author id alone, with every kind of profile
\* ------------------------------------------------------------------------

\* a discovery text of MaxLines names, the first al Bo, the others Cy Di
NamesText == JoinLines([k \in 1..MaxLines |-> IF k = 1 THEN NameAl ELSE NameCy])

Inst2 == << "2" >>
\* "12" sorts before "2" as a string and after it as a number
ExpandInstPool == {Inst1, Inst12, Inst2}

ExpandProfilePool ==
  ProfilePool \cup {Ok(<< Position(TRUE, Inst12), Position(TRUE, Inst2) >>)}

\* a member of institution 2 under the stable key of MemberBo and MemberCy
MemberDi ==
  [ id |-> "1", ids |-> << BaiId("k1") >>, papers |-> 7,
    name |-> PersonName(<< << "D", "i" >> >>, << >>),
    positions |-> << Position(TRUE, Inst2) >> ]

\* the members of each institution: one stable key at three institutions; one
\* stable key twice in one answer; an answer without a matched key
ExpandMembers ==
  { (Inst1 :> Ok(<< MemberAl, MemberBo >>)) @@ (Inst12 :> Ok(<< MemberCy >>))
      @@ (Inst2 :> Ok(<< MemberDi >>)),
    (Inst1 :> Ok(<< MemberBo, MemberCy >>)) @@ (Inst12 :> Err)
      @@ (Inst2 :> Ok(<< >>)),
    (Inst1 :> Ok(<< MemberNoBai, MemberAl >>)) @@ (Inst12 :> Ok(<< MemberBo >>))
      @@ (Inst2 :> Ok(<< MemberCy >>)) }

ExpandRegistries ==
  { [ fixed |-> TRUE, discovery |-> d, search |-> s, profile |-> p,
      instname |-> n, members |-> m ] :
      d \in {Ok(NamesText)},
      s \in [NamePool -> {Err, Ok(<< HitFull >>), Ok(<< HitNoBai >>)}],
      p \in [IdPool -> ExpandProfilePool],
      n \in {[x \in ExpandInstPool |-> Ok(<< NameYale >>)]},
      m \in ExpandMembers }

ExpandInit ==
  /\ institution \in TargetPool
  /\ registry \in ExpandRegistries
  /\ run = 1
  /\ prev = << >>
  /\ Fresh
  /\ Idle

ExpandSpec == ExpandInit /\ [][Next]_vars

\* the institution references of the positions flagged current in a profile
\* answer, none when the fetch failed
CurrentRefs(resp) ==
  IF resp.kind # "ok" THEN {}
  ELSE { AfterLastInstToken(resp.body[k].record[1]) :
           k \in { j \in 1..Len(resp.body) :
                     /\ resp.body[j].current
                     /\ resp.body[j].record # << >>
                     /\ Contains(resp.body[j].record[1], << InstRefToken >>) } }

\* C13: once the profiles of the matched identities have been fetched, the
\* candidate institution set is exactly the union, over the matched
\* identities, of the institution references of their positions flagged
\* current; a non-current position and a failed fetch contribute nothing.
C13_CandidatesAreUnionOfCurrent ==
  pc \notin {"start", "match", "phaseA"} =>
    institution_ids =
      UNION { CurrentRefs(registry.profile[m.inspire_id]) :
                m \in Elems(MatchedOnly(results)) }

\* C13 witness: of two matched identities one profile fetch failed and the
\* other profile has a non-current position at institution 1 and a current
\* one at institution 12, the only candidate.
C13_Witness ==
  /\ Returned
  /\ Len(MatchedOnly(results)) = 2
  /\ institution_ids = {Inst12}
  /\ \E m \in Elems(MatchedOnly(results)) : registry.profile[m.inspire_id] = Err
  /\ \E m \in Elems(MatchedOnly(results)) :
       registry.profile[m.inspire_id]
         = Ok(<< Position(FALSE, Inst1), Position(TRUE, Inst12) >>)

\* ------------------------------------------------------------------------
\* The name filter on discovery texts of every kind of line; no name has a
\* profile, so the run goes the way of lines 356-357
\* ------------------------------------------------------------------------

\* n characters of a word
Pad(n) == [k \in 1..n |-> "x"]

LineDrJane ==
  << " ", " ", "-", " ", "D", "r", ".", " ", "J", "a", "n", "e", " ", "A", ".",
     " ", "S", "m", "i", "t", "h" >>

\* raw lines: bulleted, numbered and bare names, emphasis, a heading, the
\* lead-ins, names of 60 and of 61 characters, one and two commas, one token,
\* nothing but whitespace or markers, a tab after the bullet
FilterLinePool ==
  { LineDrJane,
    << "3", ".", " ", "a", "l", " ", "B", "o" >>,
    << Bullet, " ", "C", "y", " ", "D", "i" >>,
    << "-", "\t", "a", "l", " ", "B", "o" >>,
    << "*", "*", "a", "l", " ", "B", "o" >>,
    << "a", "l", " ", "*", "*", "B", "o", "*", "*" >>,
    << "S", "t", "a", "f", "f", " ", "l", "i", "s", "t", ":" >>,
    << "B", "a", "s", "e", "d", " ", "o", "n", " ", "x" >>,
    << "-", " ", "p", "l", "e", "a", "s", "e", " ", "n", "o", "t", "e" >>,
    << "H", "E", "R", "E", " ", "I", "S", " ", "a" >>,
    << "T", "h", "e", " ", "f", "o", "l", "l", "o", "w", "i", "n", "g" >>,
    << "a", "l", " " >> \o Pad(57),
    << "a", "l", " " >> \o Pad(58),
    << "B", "o", ",", " ", "a", "l" >>,
    << "B", "o", ",", " ", "a", "l", ",", " ", "C", "y" >>,
    << "B", "o" >>,
    << " ", "\t" >>,
    << "-", " ", "1", "." >> }

\* the lines of the texts of several lines: two names, a heading, a line of
\* whitespace
FilterOrderPool ==
  { << "3", ".", " ", "a", "l", " ", "B", "o" >>,
    << Bullet, " ", "C", "y", " ", "D", "i" >>,
    << "S", "t", "a", "f", "f", " ", "l", "i", "s", "t", ":" >>,
    << " ", "\t" >> }

\* every line alone, and the texts of up to MaxLines lines of the latter pool
FilterDiscoveryPool ==
  {Err, NotOk}
    \cup {Ok(line) : line \in FilterLinePool}
    \cup {Ok(JoinLines(lines)) : lines \in SeqsUpTo(FilterOrderPool, MaxLines)}

NoAnswers == [x \in {} |-> Err]

\* a discovery answer, and a registry that knows none of its names
FilterRegistries ==
  { LET found == search_institution_faculty(d)
    IN  [ fixed |-> TRUE, discovery |-> d,
          search |-> [n \in {found[k] : k \in 1..Len(found)} |-> Ok(<< >>)],
          profile |-> NoAnswers, instname |-> NoAnswers, members |-> NoAnswers ] :
      d \in FilterDiscoveryPool }

FilterInit ==
  /\ institution \in TargetPool
  /\ registry \in FilterRegistries
  /\ run = 1
  /\ prev = << >>
  /\ Fresh
  /\ Idle

FilterNext ==
  \/ Discover
  \/ Match
  \/ Split
  \/ Write

FilterSpec == FilterInit /\ [][FilterNext]_vars

\* a line without its surrounding whitespace and its leading bullet and
\* numbering markers
Stripped(line) == LStripChars(Strip(line), BulletChars)

\* the policy of the name filter on a stripped line
NamePolicy(line) ==
  /\ line # << >>
  /\ ~ Contains(line, << "*", "*" >>)
  /\ line[Len(line)] # ":"
  /\ \A p \in LeadIns : ~ StartsWith(Lower(line), p)
  /\ Len(line) <= 60
  /\ CountChar(line, ",") <= 1
  /\ Len(SplitWords(line)) >= 2

\* the lines of a text that the policy accepts, in the order of the text and
\* with their duplicates
AcceptedLines(text) ==
  SelectSeq(SplitOn(Strip(text), "\n"), LAMBDA line : NamePolicy(Stripped(line)))

\* C14: the names found in a discovery text are the stripped lines the policy
\* accepts - non-empty, without '**', not ending in ':', not beginning with a
\* lead-in in any case, at most 60 characters, at most one comma, at least 2
\* tokens - one name per accepted line, in the order of the lines, duplicates
\* kept.
C14_NameFilterPolicy ==
  (pc # "start" /\ registry.discovery.kind = "ok") =>
    names = [k \in 1..Len(AcceptedLines(registry.discovery.body)) |->
               Stripped(AcceptedLines(registry.discovery.body)[k])]

\* C14 witness: the same bulleted line twice gives the same name twice.
C14_Witness ==
  /\ pc = "returned"
  /\ registry.discovery.kind = "ok"
  /\ Len(names) = 2
  /\ names[1] = names[2]
  /\ Len(registry.discovery.body) > 2 * Len(names[1]) + 1

NameDrJane ==
  << "D", "r", ".", " ", "J", "a", "n", "e", " ", "A", ".", " ", "S", "m", "i", "t", "h" >>
NameJane ==
  << "J", "a", "n", "e", " ", "A", ".", " ", "S", "m", "i", "t", "h" >>

\* C15 as stated: the line "  - Dr. Jane A. Smith" is accepted as the name
\* "Jane A. Smith", without the bullet and without the title.
C15_TitleStripped ==
  (pc # "start" /\ registry.discovery = Ok(LineDrJane)) => names = << NameJane >>

\* C15 amended: the line "  - Dr. Jane A. Smith" is accepted as the name
\* "Dr. Jane A. Smith": without the whitespace and the bullet, with the title.
C15_TitleKept ==
  (pc # "start" /\ registry.discovery = Ok(LineDrJane)) => names = << NameDrJane >>

\* C15 witness: the run on that line has returned a record of that name.
C15_Witness ==
  /\ pc = "returned"
  /\ registry.discovery = Ok(LineDrJane)
  /\ Len(expanded_results) = 1
  /\ expanded_results[1].name = NameDrJane

\* a matched identity whose profile yields no current institution reference
NoAffiliation(m) == CurrentRefs(registry.profile[m.inspire_id]) = {}

\* C16 as stated: a matched identity whose profile yields no current
\* affiliation is in the final output only if the membership enumeration
\* returned its stable key, also when no matched identity yields an
\* institution id.
C16_ExcludedUnlessRediscovered ==
  Returned =>
    \A m \in Elems(MatchedOnly(results)) :
      (NoAffiliation(m) /\ Appears(m, expanded_results))
        => (Truthy(m.inspire_bai) /\ m.inspire_bai \in Keys(all_authors))

\* C16 amended: when some matched identity yields an institution id, a
\* matched identity without a current affiliation is in the final output only
\* if the membership enumeration returned its stable key; when no matched
\* identity yields one, every matched identity is in the final output, as it
\* was matched.
C16_ExcludedWhenEnumerated ==
  /\ (Returned /\ institution_ids # {}) =>
       \A m \in Elems(MatchedOnly(results)) :
         (NoAffiliation(m) /\ Appears(m, expanded_results))
           => (Truthy(m.inspire_bai) /\ m.inspire_bai \in Keys(all_authors))
  /\ (Returned /\ institution_ids = {}) =>
       \A m \in Elems(MatchedOnly(results)) :
         NoAffiliation(m) /\ m \in Elems(expanded_results)

\* C16 witness: a matched identity with a stable key has no affiliation,
\* another matched identity yields an institution, and the enumeration
\* returned somebody but not the first.
C16_Witness ==
  /\ Returned
  /\ institution_ids # {}
  /\ expanded_results # << >>
  /\ \E m \in Elems(MatchedOnly(results)) :
       /\ Truthy(m.inspire_bai)
       /\ NoAffiliation(m)
       /\ ~ Appears(m, expanded_results)

\* the records get_authors_at_institution returns for an institution under
\* the registry's fixed answers
SeenAt(inst_id) == get_authors_at_institution(inst_id, registry.members[inst_id])

\* the institutions whose enumeration returns stable key K
InstsWithKey(K) == {x \in filtered_ids : K \in Keys(SeenAt(x))}

\* the last record of stable key K in a list that has one
LastWithKey(list, K) ==
  list[CHOOSE k \in 1..Len(list) :
         /\ list[k].inspire_bai = K
         /\ \A j \in (k + 1)..Len(list) : list[j].inspire_bai # K]

\* the institution of a non-empty set of ids that is last in ascending string
\* order
LastInOrder(S) == CHOOSE x \in S : \A y \in S : y = x \/ StrLess(y, x)

\* C17: each membership query is for the surviving institution that comes
\* first in ascending string order among those not yet queried; and when the
\* enumeration has run, the final output holds exactly one record for each
\* stable key the queries returned and none for any other key, namely the
\* last record of that key in the answer for the last institution, in that
\* order, that returned the key.
C17_LastWriteWins ==
  /\ [][(pc = "phaseC" /\ calls'.members # calls.members)
          => /\ last'.inst \in todo
             /\ \A x \in todo' : StrLess(last'.inst, x)]_vars
  /\ []((Returned /\ institution_ids # {}) =>
          /\ Keys(expanded_results) = UNION {Keys(SeenAt(x)) : x \in filtered_ids}
          /\ \A a \in 1..Len(expanded_results) :
               /\ Truthy(expanded_results[a].inspire_bai)
               /\ \A b \in 1..Len(expanded_results) :
                    expanded_results[a].inspire_bai = expanded_results[b].inspire_bai
                      => a = b
               /\ expanded_results[a]
                    = LastWithKey(SeenAt(LastInOrder(InstsWithKey(expanded_results[a].inspire_bai))),
                                  expanded_results[a].inspire_bai))

\* C17 witness: institutions 12 and 2 were queried, in that order, both
\* returned the same stable key under different names, and the final output
\* holds the record of institution 2.
C17_Witness ==
  /\ Returned
  /\ filtered_ids = {Inst12, Inst2}
  /\ last.inst = Inst2
  /\ \E K \in Keys(SeenAt(Inst12)) \cap Keys(SeenAt(Inst2)) :
       /\ LastWithKey(SeenAt(Inst12), K) # LastWithKey(SeenAt(Inst2), K)
       /\ LastWithKey(expanded_results, K) = LastWithKey(SeenAt(Inst2), K)

\* C17 witness of one answer with the same stable key twice: the final output
\* holds the later record.
C17_TwiceInOneAnswer ==
  /\ Returned
  /\ filtered_ids = {Inst1}
  /\ Len(SeenAt(Inst1)) = 2
  /\ SeenAt(Inst1)[1].inspire_bai = SeenAt(Inst1)[2].inspire_bai
  /\ expanded_results = << SeenAt(Inst1)[2] >>

\* C18: when no accepted name has a record with a non-empty canonical id, no
\* profile, institution-name or membership call is made, and the final output
\* holds one record per entry of the accepted name list, in discovery order,
\* a name that was accepted twice twice.
C18_NoMatchKeepsEveryName ==
  (Returned /\ names # << >>
     /\ \A k \in 1..Len(results) : ~ Truthy(results[k].inspire_id))
    => /\ calls.profile = << >>
       /\ Counted(calls.instname) = {}
       /\ Counted(calls.members) = {}
       /\ institution_ids = {}
       /\ all_authors = << >>
       /\ Len(expanded_results) = Len(names)
       /\ \A k \in 1..Len(names) : expanded_results[k].name = names[k]

\* C18 witness: the same name was accepted twice, neither search gave a
\* canonical id (one failed, one hit has an empty id), and the run has
\* returned two records of that name.
C18_Witness ==
  /\ Returned
  /\ Len(names) = 2
  /\ names[1] = names[2]
  /\ \A k \in 1..Len(results) : ~ Truthy(results[k].inspire_id)
  /\ results[1] # results[2]
  /\ Len(expanded_results) = 2
  /\ expanded_results[1].name = expanded_results[2].name

\* ------------------------------------------------------------------------
\* rank_institution: find_researchers, then the papers of each researcher
\* through the cache directory (sauron.py)
\* ------------------------------------------------------------------------

\* the content of a cache file that was there before the run
OldFile == << "p0" >>

\* answers of the literature search, and what becomes of the write: done, not
\* begun (the file could not be opened), or begun (the file is there, cut)
Papers(kind, hits, disk) == [kind |-> kind, body |-> hits, disk |-> disk]
PapersPool ==
  { Papers("error", << >>, "done"),
    Papers("ok", << >>, "done"),
    Papers("ok", << "p1" >>, "done"),
    Papers("ok", << "p1" >>, "unopened"),
    Papers("ok", << "p1" >>, "cut") }

\* paper_gatherer.py:35-103: whether a path is returned, and the file written
get_author_papers(bai, resp) ==
  IF resp.kind # "ok" \/ resp.body = << >>
  THEN [result |-> FALSE, file |-> << >>]
  ELSE IF resp.disk = "done" THEN [result |-> TRUE, file |-> << resp.body >>]
  ELSE IF resp.disk = "cut" THEN [result |-> FALSE, file |-> << << >> >>]
  ELSE [result |-> FALSE, file |-> << >>]

\* a loop that never looks into the cache directory
CachedNever(bai, files) == FALSE

\* sauron.py:176-178: output_file.exists()
Cached(bai, files) == bai \in DOMAIN files

\* a caller that goes on with an empty list
NoResearchersNever(list) == FALSE

\* sauron.py:148: if not researchers
NoResearchers(list) == list = << >>

\* sauron.py:153-155: researchers[:max_researchers]
Limited(list, max) ==
  IF max # 0 /\ Len(list) > max THEN SubSeq(list, 1, max) ELSE list

\* sauron.py:148-150: sys.exit(1)
Exit ==
  /\ pc = "returned"
  /\ NoResearchers(expanded_results)
  /\ pc' = "exit1"
  /\ UNCHANGED << institution, registry, run, prev, names, results, i,
                  institution_ids, todo, filtered_ids, all_authors,
                  expanded_results, report, calls, last, rankVars >>

\* sauron.py:152-165: the limit, and the start of the paper loop
Limit ==
  /\ pc = "returned"
  /\ ~ NoResearchers(expanded_results)
  /\ pc' = "gather"
  /\ researchers' = Limited(expanded_results, max_researchers)
  /\ i' = 1
  /\ paper_files' = << >>
  /\ UNCHANGED << institution, registry, run, prev, names, results,
                  institution_ids, todo, filtered_ids, all_authors,
                  expanded_results, report, calls, last,
                  max_researchers, cache, fetched >>

\* sauron.py:167-189: one researcher of the paper loop
Gather ==
  /\ pc = "gather"
  /\ i <= Len(researchers)
  /\ i' = i + 1
  /\ LET bai == researchers[i].inspire_bai
     IN  IF ~ Truthy(bai)
         THEN UNCHANGED << cache, paper_files, fetched, last >>
         ELSE IF Cached(bai, cache)
         THEN /\ paper_files' = Append(paper_files, bai)
              /\ UNCHANGED << cache, fetched, last >>
         ELSE \E resp \in PapersPool :
                LET got == get_author_papers(bai, resp)
                IN  /\ fetched' = Append(fetched, bai)
                    /\ cache' = IF got.file # << >>
                                THEN (bai :> got.file[1]) @@ cache
                                ELSE cache
                    /\ paper_files' = IF got.result
                                      THEN Append(paper_files, bai)
                                      ELSE paper_files
                    /\ last' = [ call |-> "papers", idx |-> i, inst |-> << >>,
                                 kind |-> resp.kind, body |-> resp.body,
                                 out |-> got.result ]
  /\ UNCHANGED << institution, registry, run, prev, pc, names, results,
                  institution_ids, todo, filtered_ids, all_authors,
                  expanded_results, report, calls, max_researchers, researchers >>

\* sauron.py:191-199: the paper loop is over
Combine ==
  /\ pc = "gather"
  /\ i > Len(researchers)
  /\ pc' = "context"
  /\ UNCHANGED << institution, registry, run, prev, names, results, i,
                  institution_ids, todo, filtered_ids, all_authors,
                  expanded_results, report, calls, last, rankVars >>

\* registries for the lists find_researchers can return: nothing, records
\* without a stable key, one stable key twice, the values of the mapping
RankRegistries ==
  { [ fixed |-> TRUE, discovery |-> d, search |-> s, profile |-> p,
      instname |-> n, members |-> m ] :
      d \in {Err, Ok(NamesText)},
      s \in [NamePool -> {Err, Ok(<< HitFull >>), Ok(<< HitNoBai >>)}],
      p \in [IdPool -> {Err, Ok(<< Position(TRUE, Inst1) >>)}],
      n \in {[x \in InstPool |-> Ok(<< NameYale >>)]},
      m \in {[x \in InstPool |-> a] : a \in {Err, Ok(<< >>), Ok(<< MemberAl, MemberBo >>)}} }

\* the stable keys that may have a cache file from an earlier run
CachedKeyPool == {"k1", "k2"}

RankInit ==
  /\ institution \in TargetPool
  /\ registry \in RankRegistries
  /\ run = 1
  /\ prev = << >>
  /\ Fresh
  /\ max_researchers \in {0, 1}
  /\ researchers = << >>
  /\ cache \in {[k \in S |-> OldFile] : S \in SUBSET CachedKeyPool}
  /\ paper_files = << >>
  /\ fetched = << >>

RankNext ==
  \/ Next
  \/ Exit
  \/ Limit
  \/ Gather
  \/ Combine

RankSpec == RankInit /\ [][RankNext]_vars

\* find_researchers has returned to rank_institution
BackInRank == pc \in {"returned", "exit1", "gather", "context"}

\* C19: whenever a matched identity yields an institution id, the list
\* find_researchers returned is the values of the membership mapping, each
\* with a non-empty stable key, also when the mapping is empty; and
\* rank_institution exits with status 1 on an empty list, before it fetches
\* or collects any paper, and only then.
C19_MappingValuesOrExit ==
  /\ (BackInRank /\ institution_ids # {}) =>
       /\ expanded_results = all_authors
       /\ \A k \in 1..Len(expanded_results) : Truthy(expanded_results[k].inspire_bai)
  /\ pc = "exit1" =>
       /\ expanded_results = << >>
       /\ researchers = << >>
       /\ fetched = << >>
       /\ paper_files = << >>
       /\ last.call # "papers"
  /\ pc \in {"gather", "context"} => expanded_results # << >>

\* C19 witness: a name was matched, its profile gave an institution, the
\* membership query failed, and rank_institution has exited.
C19_Witness ==
  /\ pc = "exit1"
  /\ MatchedOnly(results) # << >>
  /\ institution_ids # {}
  /\ last.call = "members"
  /\ last.kind = "error"
  /\ all_authors = << >>

\* a step of the paper loop that called get_author_papers
Fetches == fetched' # fetched

\* the stable key of the researcher the paper loop is at
KeyAtHand == researchers[i].inspire_bai

\* C20: in the paper loop a fetch is issued only for a non-empty stable key
\* that has no cache file at that moment; a cache file that exists is never
\* removed or changed; a cache file appears only in a step whose fetch
\* answered with at least one paper, and it is the file of the fetched key;
\* a researcher without a stable key causes no fetch, no cache write and no
\* paper file.
C20_ReadBeforeWrite ==
  /\ [][Fetches =>
          /\ pc = "gather"
          /\ fetched' = Append(fetched, KeyAtHand)
          /\ Truthy(KeyAtHand)
          /\ KeyAtHand \notin DOMAIN cache]_vars
  /\ [][\A k \in DOMAIN cache : k \in DOMAIN cache' /\ cache'[k] = cache[k]]_vars
  /\ [][cache' # cache =>
          /\ Fetches
          /\ DOMAIN cache' = DOMAIN cache \cup {KeyAtHand}
          /\ last'.call = "papers"
          /\ last'.kind = "ok"
          /\ last'.body # << >>]_vars
  /\ [][(pc = "gather" /\ i <= Len(researchers) /\ ~ Truthy(KeyAtHand))
          => (fetched' = fetched /\ cache' = cache /\ paper_files' = paper_files)]_vars

\* C20 witness: the list holds one stable key twice and a file of another key
\* was there before; the key was fetched once, its file written, and the
\* second record of the key took the file from the cache.
C20_Witness ==
  /\ pc = "context"
  /\ Len(researchers) = 2
  /\ Truthy(researchers[1].inspire_bai)
  /\ researchers[1].inspire_bai = researchers[2].inspire_bai
  /\ fetched = << researchers[1].inspire_bai >>
  /\ paper_files = << researchers[1].inspire_bai, researchers[1].inspire_bai >>
  /\ \E k \in DOMAIN cache : k # researchers[1].inspire_bai /\ cache[k] = OldFile

\* C20 witness of a researcher without a stable key: the loop went past it
\* without a fetch and fetched for the keyed one.
C20_KeylessSkipped ==
  /\ pc = "context"
  /\ Len(researchers) = 2
  /\ ~ Truthy(researchers[1].inspire_bai)
  /\ Len(fetched) = 1

====
